---- MODULE Spec2Model ----
(***************************************************************************)
(* A model of panda/src/pgraph InstanceList and InstancedNode.             *)
(*                                                                         *)
(* InstanceList objects live in a heap (the variable instances): a list    *)
(* reference is an index into it, 0 is nullptr.  A TransformState is an    *)
(* immutable, uniquified value, here an affine map x |-> a*x + b over Z_3  *)
(* (a non-commutative group of six elements), written <<a, b>>.            *)
(***************************************************************************)
EXTENDS Integers, Sequences, FiniteSets, TLC

\* ------------------------------------------------------------------ bounds
MaxLen == 3          \* longest InstanceList built by append
NodeMaxLen == 1      \* longest InstanceList built through a node's write pointer
NumStages == 2       \* pipeline stages of a cycler
MaxReaders == 1      \* read pointers held at one time
MaxChildren == 2     \* most children of a node
NumThreads == 2      \* threads that call without at the same time
MaxNodes == 2        \* nodes made by make_copy, the original included

\* ------------------------------------------------------------- transforms
Identity == <<1, 0>>
TA == <<1, 1>>       \* a translation
TB == <<2, 0>>       \* a reflection
TC == <<2, 1>>
TInputs == {TA, TB}
Mats == {Identity, TA, TB}

\* TransformState::compose: (x o y)(p) = x(y(p))
compose(x, y) == <<(x[1] * y[1]) % 3, (x[1] * y[2] + x[2]) % 3>>

\* ---------------------------------------------------------------- BitArray
\* A BitArray is a finite set of on bits below MaxBit plus the value of all
\* the (infinitely many) higher bits.
MaxBit == MaxLen + 1
Masks == [bits : SUBSET (0 .. MaxBit - 1), high : BOOLEAN]

get_num_on_bits(mask) == IF mask.high THEN -1 ELSE Cardinality(mask.bits)

get_bit(mask, i) == IF i < MaxBit THEN i \in mask.bits ELSE mask.high

get_lowest_off_bit(mask) ==
  LET off == {i \in 0 .. MaxBit - 1 : i \notin mask.bits}
  IN  IF off # {} THEN CHOOSE i \in off : \A j \in off : i <= j
      ELSE IF mask.high THEN -1 ELSE MaxBit

get_lowest_on_bit(mask) ==
  IF mask.bits # {} THEN CHOOSE i \in mask.bits : \A j \in mask.bits : i <= j
  ELSE IF mask.high THEN MaxBit ELSE -1

\* The conversion (size_t)n of an int: size_t is modelled SizeTBits wide.
SizeTBits == 30
SizeT(n) == n % (2 ^ SizeTBits)

VARIABLES
  instances,    \* heap of InstanceList objects: instances[r] is r's _instances
  empty_list,   \* the static empty_list of InstanceList::without, 0 = nullptr
  mine,         \* the lists the application holds a PT(InstanceList) to
  last,         \* the last call made and what it returned (a CPT the caller holds)
  threads,      \* threads[t]: where thread t is in its call of without
  exact,        \* exact[n]: node n is of the exact type InstancedNode
  cycler,       \* cycler[n][s]: the CData of node n in pipeline stage s
  readers,      \* readers[k]: the read pointer reader k holds: [node, stage, ref]
  call,         \* the last call made on a node and what it returned
  bam           \* a BamWriter and a BamReader passing one InstanceList

listVars == <<empty_list, mine, last, threads>>
nodeVars == <<exact, cycler, readers, call>>
bamVars == <<bam>>
vars == <<instances, empty_list, mine, last, threads, exact, cycler, readers, call,
          bam>>

\* The heap is a function from the live references; 0 is nullptr.  operator
\* new returns an address that is not in use; an object nothing refers to any
\* more is deleted (PT, CPT and the static are reference-counting pointers).
Refs == DOMAIN instances
size(r) == Len(instances[r])
NewRef(h) == CHOOSE r \in 1 .. Cardinality(DOMAIN h) + 1 : r \notin DOMAIN h
New(h, list) == h @@ (NewRef(h) :> list)
Keep(h, owners) == [r \in DOMAIN h \cap owners |-> h[r]]

NoMask == [bits |-> {}, high |-> FALSE]
NoCall == [op |-> "none", this |-> 0, mask |-> NoMask, mat |-> Identity,
           ret |-> 0, pre |-> <<>>, nassert |-> FALSE]

\* ------------------------------------------------------------ InstanceList
\* InstanceList::xform: the body is empty.
xform(list, mat) == list

\* The first test of without: nothing is culled.
without_none_culled_off_by_one(num_culled) == num_culled = 1
without_none_culled(num_culled) == num_culled = 0

\* The second test of without: everything is culled.
without_all_culled_strict(num_culled, num_instances) == num_culled > num_instances
without_all_culled(num_culled, num_instances) == num_culled >= num_instances

\* Where the copying loop of without starts.
without_first_on_bit(mask) == SizeT(get_lowest_on_bit(mask))
without_first(mask) == SizeT(get_lowest_off_bit(mask))

\* The test of the copying loop of without: instance i is kept.
without_keeps_on_bits(mask, i) == get_bit(mask, i)
without_keeps(mask, i) == ~get_bit(mask, i)

\* The copying loop of without, from index i on.
RECURSIVE without_loop(_, _, _, _)
without_loop(list, mask, i, new_list) ==
  IF i < Len(list) + 1 /\ i >= 1
  THEN without_loop(list, mask, i + 1,
         IF without_keeps(mask, i - 1) THEN Append(new_list, list[i]) ELSE new_list)
  ELSE new_list

\* InstanceList::without on the object this, given the heap h and the static
\* el: the heap and the static after the call, the reference returned and
\* whether the nassertr failed.
without(h, el, this, mask) ==
  LET num_instances == Len(h[this])
      num_culled == SizeT(get_num_on_bits(mask))
  IN  IF without_none_culled(num_culled)
      THEN [heap |-> h, el |-> el, ret |-> this, nassert |-> FALSE]
      ELSE IF without_all_culled(num_culled, num_instances)
      THEN LET h2 == IF el = 0 THEN New(h, <<>>) ELSE h
               el2 == IF el = 0 THEN NewRef(h) ELSE el
           IN  [heap |-> h2, el |-> el2, ret |-> el2,
                nassert |-> ~(num_culled <= num_instances)]
      ELSE LET new_list == without_loop(h[this], mask, without_first(mask) + 1, <<>>)
           IN  [heap |-> New(h, new_list), el |-> el, ret |-> NewRef(h),
                nassert |-> FALSE]

\* -------------------------------------------------------------- list calls
\* What refers to a list: the application's pointers, the static of without
\* and the pointer the last call returned.
ListOwners(el, m, l) == m \cup {el, l.ret}

NoNodeCall == [op |-> "none", node |-> 0, other |-> 0, stage |-> 0, ret |-> 0,
               data |-> <<>>, calls |-> <<>>, cloned |-> FALSE, write |-> <<>>]
NoReader == [node |-> 0, stage |-> 0, ref |-> 0]
NoBam == [phase |-> "idle", this |-> 0, ids |-> <<>>, dg |-> <<>>, object |-> 0,
          pos |-> 0, requests |-> <<>>, overrun |-> FALSE, pi |-> 0,
          ndebug |-> FALSE]

Init ==
  /\ instances = (1 :> <<>>)
  /\ empty_list = 0
  /\ mine = {1}
  /\ last = NoCall
  /\ threads = <<>>
  /\ exact = <<>>
  /\ cycler = <<>>
  /\ readers = <<>>
  /\ call = NoNodeCall
  /\ bam = NoBam

Append_(r, t) ==
  /\ r \in mine /\ size(r) < MaxLen
  /\ last' = [NoCall EXCEPT !.op = "append", !.this = r, !.pre = instances[r]]
  /\ instances' = Keep([instances EXCEPT ![r] = Append(@, t)],
                        ListOwners(empty_list, mine, last'))
  /\ UNCHANGED <<empty_list, mine, threads>>
  /\ UNCHANGED <<nodeVars, bamVars>>

Clear(r) ==
  /\ r \in mine /\ size(r) > 0
  /\ last' = [NoCall EXCEPT !.op = "clear", !.this = r, !.pre = instances[r]]
  /\ instances' = Keep([instances EXCEPT ![r] = <<>>],
                        ListOwners(empty_list, mine, last'))
  /\ UNCHANGED <<empty_list, mine, threads>>
  /\ UNCHANGED <<nodeVars, bamVars>>

Xform(r, mat) ==
  /\ r \in mine
  /\ last' = [NoCall EXCEPT !.op = "xform", !.this = r, !.mat = mat,
                            !.pre = instances[r]]
  /\ instances' = Keep([instances EXCEPT ![r] = xform(@, mat)],
                        ListOwners(empty_list, mine, last'))
  /\ UNCHANGED <<empty_list, mine, threads>>
  /\ UNCHANGED <<nodeVars, bamVars>>

Without(r, mask) ==
  LET w == without(instances, empty_list, r, mask)
  IN  /\ last' = [NoCall EXCEPT !.op = "without", !.this = r, !.mask = mask,
                                !.ret = w.ret, !.pre = instances[r],
                                !.nassert = w.nassert]
      /\ empty_list' = w.el
      /\ instances' = Keep(w.heap, ListOwners(w.el, mine, last'))
      /\ UNCHANGED <<mine, threads>>
      /\ UNCHANGED <<nodeVars, bamVars>>

Next ==
  \/ \E r \in Refs, t \in TInputs : Append_(r, t)
  \/ \E r \in Refs : Clear(r)
  \/ \E r \in Refs, mat \in Mats : Xform(r, mat)
  \/ \E r \in Refs, mask \in Masks : Without(r, mask)

Spec == Init /\ [][Next]_vars

\* ----------------------------------------------- without called by threads
\* A thread is idle (and may hold the list its last call returned), or it is
\* in the branch of without that returns the static empty list: about to test
\* the static, to make a new InstanceList, to assign it to the static, or to
\* return the static.  new is the list it made and has not assigned yet,
\* allocated is the number of lists it has made.
NoThread == [pc |-> "idle", this |-> 0, ret |-> 0, new |-> 0, allocated |-> 0]

\* What refers to a list when threads call without.
ThreadOwners(el, m, th) ==
  m \cup {el} \cup {th[t].ret : t \in DOMAIN th} \cup {th[t].new : t \in DOMAIN th}

\* One list of the application, and threads that are idle.
InitThreads ==
  /\ instances \in {(1 :> <<>>), (1 :> <<TA>>)}
  /\ empty_list = 0
  /\ mine = {1}
  /\ last = NoCall
  /\ threads = [t \in 1 .. NumThreads |-> NoThread]
  /\ exact = <<>>
  /\ cycler = <<>>
  /\ readers = <<>>
  /\ call = NoNodeCall
  /\ bam = NoBam

\* Thread t calls r->without(mask) with a mask that takes it into the second
\* branch; it drops the list its last call returned.
WithoutCall(t, r, mask) ==
  LET num_culled == SizeT(get_num_on_bits(mask))
      th == [threads EXCEPT ![t] = [@ EXCEPT !.pc = "test", !.this = r, !.ret = 0]]
  IN  /\ threads[t].pc = "idle" /\ r \in mine
      /\ ~without_none_culled(num_culled)
      /\ without_all_culled(num_culled, size(r))
      /\ threads' = th
      /\ instances' = Keep(instances, ThreadOwners(empty_list, mine, th))
      /\ UNCHANGED <<empty_list, mine, last>>
      /\ UNCHANGED <<nodeVars, bamVars>>

\* if (empty_list == nullptr)
WithoutTest(t) ==
  /\ threads[t].pc = "test"
  /\ threads' = [threads EXCEPT ![t].pc = IF empty_list = 0 THEN "new" ELSE "return"]
  /\ UNCHANGED <<instances, empty_list, mine, last>>
  /\ UNCHANGED <<nodeVars, bamVars>>

\* new InstanceList
WithoutNew(t) ==
  /\ threads[t].pc = "new"
  /\ instances' = New(instances, <<>>)
  /\ threads' = [threads EXCEPT ![t] = [@ EXCEPT !.pc = "assign",
                                                 !.new = NewRef(instances),
                                                 !.allocated = @ + 1]]
  /\ UNCHANGED <<empty_list, mine, last>>
  /\ UNCHANGED <<nodeVars, bamVars>>

\* empty_list = (the new list): the list the static pointed to loses a
\* reference.
WithoutAssign(t) ==
  LET th == [threads EXCEPT ![t] = [@ EXCEPT !.pc = "return", !.new = 0]]
  IN  /\ threads[t].pc = "assign"
      /\ empty_list' = threads[t].new
      /\ threads' = th
      /\ instances' = Keep(instances, ThreadOwners(threads[t].new, mine, th))
      /\ UNCHANGED <<mine, last>>
      /\ UNCHANGED <<nodeVars, bamVars>>

\* return empty_list
WithoutReturn(t) ==
  /\ threads[t].pc = "return"
  /\ threads' = [threads EXCEPT ![t] = [@ EXCEPT !.pc = "idle", !.ret = empty_list]]
  /\ UNCHANGED <<instances, empty_list, mine, last>>
  /\ UNCHANGED <<nodeVars, bamVars>>

NextThreads ==
  \/ \E t \in DOMAIN threads, r \in Refs, mask \in Masks : WithoutCall(t, r, mask)
  \/ \E t \in DOMAIN threads : WithoutTest(t)
  \/ \E t \in DOMAIN threads : WithoutNew(t)
  \/ \E t \in DOMAIN threads : WithoutAssign(t)
  \/ \E t \in DOMAIN threads : WithoutReturn(t)

SpecThreads == InitThreads /\ [][NextThreads]_vars

\* ------------------------------------------------------------ InstancedNode
Nodes == DOMAIN cycler
Stages == 0 .. NumStages - 1

\* InstanceList::make_cow_copy and the copy constructor: a new InstanceList
\* with a copy of _instances.  Given the heap, the heap with the copy in it.
make_cow_copy_in_place(h, r) == h
make_cow_copy_empty(h, r) == New(h, <<>>)
make_cow_copy(h, r) == New(h, h[r])

\* InstancedNode::CData::make_copy and the copy constructor: a new CData whose
\* _instances points to the same InstanceList.
CData_make_copy_unset(cdata) == [instances |-> 0]
CData_make_copy(cdata) == [instances |-> cdata.instances]

\* The list that node n has in stage s.
get_instances(cyc, n, s) == cyc[n][s].instances

\* The pointers to lists, in a fixed order: the CData of every stage of every
\* node, then the read pointers held.
Pointers(cyc, rds) ==
  [i \in 1 .. Len(cyc) * NumStages |->
     cyc[((i - 1) \div NumStages) + 1][(i - 1) % NumStages].instances]
  \o [k \in 1 .. Len(rds) |-> rds[k].ref]

\* How many CopyOnWritePointers and read pointers refer to list r.
ref_count(cyc, rds, r) ==
  LET ptrs == Pointers(cyc, rds)
  IN  Cardinality({i \in 1 .. Len(ptrs) : ptrs[i] = r})

\* The heap after a call on a node.  A list no pointer refers to is deleted.
\* Addresses are only ever compared for equality, so the heap is kept up to
\* renaming: the live lists are numbered in the order Pointers reaches them.
Tidy(h, cyc, rds) ==
  LET ptrs == Pointers(cyc, rds)
      live == {ptrs[i] : i \in 1 .. Len(ptrs)} \ {0}
      first(r) == CHOOSE i \in 1 .. Len(ptrs) :
                    ptrs[i] = r /\ \A j \in 1 .. i - 1 : ptrs[j] # r
      rank(r) == IF r = 0 THEN 0
                 ELSE Cardinality({ptrs[j] : j \in 1 .. first(r)} \ {0})
      at(k) == CHOOSE r \in live : rank(r) = k
  IN  [heap |-> [k \in 1 .. Cardinality(live) |-> h[at(k)]],
       cycler |-> [n \in DOMAIN cyc |->
                     [s \in Stages |-> [instances |-> rank(cyc[n][s].instances)]]],
       readers |-> [k \in DOMAIN rds |-> [rds[k] EXCEPT !.ref = rank(@)]]]

\* CopyOnWritePointer::get_write_pointer on the pointer of node n, stage s: a
\* list that has another owner is cloned first and the clone replaces it.
get_write_pointer(h, cyc, rds, n, s) ==
  LET r == get_instances(cyc, n, s)
  IN  IF ref_count(cyc, rds, r) > 1
      THEN LET h2 == make_cow_copy(h, r)
               w == IF DOMAIN h2 = DOMAIN h THEN r ELSE NewRef(h)
           IN  [heap |-> h2, ptr |-> w,
                cycler |-> [cyc EXCEPT ![n][s].instances = w]]
      ELSE [heap |-> h, ptr |-> r, cycler |-> cyc]

\* PipelineCycler::cycle: every stage but the first takes a copy of the CData
\* of the stage before it.
cycle(cyc) ==
  [n \in DOMAIN cyc |->
     [s \in Stages |-> IF s = 0 THEN cyc[n][s] ELSE CData_make_copy(cyc[n][s - 1])]]

\* InstancedNode::make_copy and the copy constructor: a new node of the exact
\* type InstancedNode whose cycler is a copy of this node's, each stage with
\* a copy of the CData of that stage.  The heap, exact and the cyclers with
\* the new node, which is the last.
make_copy_deep(h, ex, cyc, this) ==
  [heap |-> make_cow_copy(h, cyc[this][0].instances),
   exact |-> Append(ex, TRUE),
   cycler |-> Append(cyc, [s \in Stages |-> [instances |-> NewRef(h)]])]
make_copy(h, ex, cyc, this) ==
  [heap |-> h,
   exact |-> Append(ex, TRUE),
   cycler |-> Append(cyc, [s \in Stages |-> CData_make_copy(cyc[this][s])])]

\* InstancedNode::combine_with: the node returned, 0 for nullptr.
combine_with_by_value(h, ex, cyc, this, other, s) ==
  IF ex[this] /\ ex[other]
       /\ h[get_instances(cyc, this, s)] = h[get_instances(cyc, other, s)]
  THEN this ELSE 0
combine_with(h, ex, cyc, this, other, s) ==
  IF ex[this] /\ ex[other]
  THEN IF get_instances(cyc, this, s) = get_instances(cyc, other, s)
       THEN this ELSE 0
  ELSE 0

\* CullTraverserData: the net transform, and whether a view frustum and cull
\* planes are set.
Datas == [net : {Identity, TB}, view_frustum : BOOLEAN, cull_planes : BOOLEAN]
apply_transform(data, transform) ==
  [data EXCEPT !.net = compose(@, transform)]

\* The first two statements of cull_callback: culling is disabled in data.
cull_callback_keeps_culling(data) == data
cull_callback_disable(data) ==
  [data EXCEPT !.view_frustum = FALSE, !.cull_planes = FALSE]

\* The loop of cull_callback from instance i on: calls is the sequence of the
\* arguments of trav->traverse_below so far.
RECURSIVE cull_callback_loop_shared(_, _, _, _)
cull_callback_loop_shared(list, data, i, calls) ==
  IF i <= Len(list)
  THEN LET instance_data == apply_transform(data, list[i])
       IN  cull_callback_loop_shared(list, instance_data, i + 1,
                                     Append(calls, instance_data))
  ELSE calls
RECURSIVE cull_callback_loop(_, _, _, _)
cull_callback_loop(list, data, i, calls) ==
  IF i <= Len(list)
  THEN LET instance_data == apply_transform(data, list[i])
       IN  cull_callback_loop(list, data, i + 1, Append(calls, instance_data))
  ELSE calls

\* InstancedNode::cull_callback: data after the call, the calls made to
\* traverse_below and the value returned.
cull_callback(list, data) ==
  LET d == cull_callback_disable(data)
  IN  [data |-> d, calls |-> cull_callback_loop(list, d, 1, <<>>), ret |-> FALSE]

\* The inner loop of calc_tight_bounds from child ci on: calls is the
\* sequence of the calls made to the children's calc_tight_bounds so far, each
\* the child and the transform passed to it.
RECURSIVE calc_tight_bounds_children(_, _, _, _)
calc_tight_bounds_children(num_children, instance_transform, ci, calls) ==
  IF ci < num_children
  THEN calc_tight_bounds_children(num_children, instance_transform, ci + 1,
                                  Append(calls, <<ci, instance_transform>>))
  ELSE calls

\* The outer loop of calc_tight_bounds from instance ii on.
RECURSIVE calc_tight_bounds_loop(_, _, _, _, _)
calc_tight_bounds_loop(list, next_transform, num_children, ii, calls) ==
  IF ii < Len(list)
  THEN LET instance_transform == compose(next_transform, list[ii + 1])
       IN  calc_tight_bounds_loop(list, next_transform, num_children, ii + 1,
             calc_tight_bounds_children(num_children, instance_transform, 0, calls))
  ELSE calls

\* InstancedNode::calc_tight_bounds on a node whose own transform is
\* node_transform and that has num_children children: the calls made to the
\* children and the transform returned.  The bounds themselves are computed
\* by the children.
calc_tight_bounds_last_instance(list, transform, node_transform, num_children) ==
  LET next_transform == compose(transform, node_transform)
  IN  [calls |-> calc_tight_bounds_loop(list, next_transform, num_children, 0, <<>>),
       ret |-> IF list = <<>> THEN next_transform
               ELSE compose(next_transform, list[Len(list)])]
calc_tight_bounds(list, transform, node_transform, num_children) ==
  LET next_transform == compose(transform, node_transform)
  IN  [calls |-> calc_tight_bounds_loop(list, next_transform, num_children, 0, <<>>),
       ret |-> next_transform]

\* -------------------------------------------------------------- node calls
\* Two nodes, each constructed with a new, empty InstanceList in every stage;
\* the second may be of a class derived from InstancedNode.
InitNode ==
  /\ instances = (1 :> <<>>) @@ (2 :> <<>>)
  /\ empty_list = 0
  /\ mine = {}
  /\ last = NoCall
  /\ threads = <<>>
  /\ exact \in {<<TRUE, TRUE>>, <<TRUE, FALSE>>}
  /\ cycler = [n \in {1, 2} |-> [s \in Stages |-> [instances |-> n]]]
  /\ readers = <<>>
  /\ call = NoNodeCall
  /\ bam = NoBam

\* The state of the nodes after a call that left the heap h, the cyclers cyc
\* and the read pointers rds.
NodeState(h, cyc, rds) ==
  LET t == Tidy(h, cyc, rds)
  IN  /\ instances' = t.heap
      /\ cycler' = t.cycler
      /\ readers' = t.readers

\* set_instances with a new list.
SetInstancesNew(n, s) ==
  /\ NodeState(New(instances, <<>>),
               [cycler EXCEPT ![n][s].instances = NewRef(instances)], readers)
  /\ call' = [NoNodeCall EXCEPT !.op = "write", !.node = n, !.stage = s]
  /\ UNCHANGED <<exact, listVars, bamVars>>

\* set_instances with the list of another node.
SetInstancesOf(n, s, m) ==
  /\ n # m
  /\ NodeState(instances,
               [cycler EXCEPT ![n][s].instances = get_instances(cycler, m, s)],
               readers)
  /\ call' = [NoNodeCall EXCEPT !.op = "write", !.node = n, !.stage = s]
  /\ UNCHANGED <<exact, listVars, bamVars>>

\* One write to a list through a write pointer: append(t), clear() or
\* (*list)[i - 1].set_transform(t); the contents of the list after it.
written(list, write) ==
  CASE write[1] = "append" -> Append(list, write[3])
    [] write[1] = "clear" -> <<>>
    [] write[1] = "set" -> [list EXCEPT ![write[2]] = write[3]]

\* modify_instances, and one write through the pointer it returns.
Modify(n, s, write) ==
  LET w == get_write_pointer(instances, cycler, readers, n, s)
  IN  /\ NodeState([w.heap EXCEPT ![w.ptr] = written(@, write)], w.cycler, readers)
      /\ call' = [NoNodeCall EXCEPT !.op = "write", !.node = n, !.stage = s,
                                    !.cloned = (w.heap # instances),
                                    !.write = write]
      /\ UNCHANGED <<exact, listVars, bamVars>>

ModifyAppend(n, s, t, max) ==
  /\ size(get_instances(cycler, n, s)) < max
  /\ Modify(n, s, <<"append", 0, t>>)

ModifyClear(n, s) ==
  /\ size(get_instances(cycler, n, s)) > 0
  /\ Modify(n, s, <<"clear", 0, Identity>>)

ModifySet(n, s, i, t) ==
  /\ i \in 1 .. size(get_instances(cycler, n, s))
  /\ instances[get_instances(cycler, n, s)][i] # t
  /\ Modify(n, s, <<"set", i, t>>)

\* get_instances: reader k takes a read pointer and holds it.
GetInstances(k, n, s) ==
  /\ readers[k] = NoReader
  /\ NodeState(instances, cycler,
               [readers EXCEPT ![k] = [node |-> n, stage |-> s,
                                       ref |-> get_instances(cycler, n, s)]])
  /\ call' = NoNodeCall
  /\ UNCHANGED <<exact, listVars, bamVars>>

\* Reader k drops its read pointer.
Release(k) ==
  /\ readers[k] # NoReader
  /\ NodeState(instances, cycler, [readers EXCEPT ![k] = NoReader])
  /\ call' = NoNodeCall
  /\ UNCHANGED <<exact, listVars, bamVars>>

Cycle ==
  /\ cycle(cycler) # cycler
  /\ NodeState(instances, cycle(cycler), readers)
  /\ call' = NoNodeCall
  /\ UNCHANGED <<exact, listVars, bamVars>>

CombineWith(n, m, s) ==
  /\ call' = [NoNodeCall EXCEPT !.op = "combine_with", !.node = n, !.other = m,
                  !.stage = s,
                  !.ret = combine_with(instances, exact, cycler, n, m, s)]
  /\ UNCHANGED <<instances, exact, cycler, readers, listVars, bamVars>>

CullCallback(n, s, data) ==
  LET c == cull_callback(instances[get_instances(cycler, n, s)], data)
  IN  /\ call' = [NoNodeCall EXCEPT !.op = "cull_callback", !.node = n, !.stage = s,
                      !.ret = c.ret, !.data = <<data, c.data>>, !.calls = c.calls]
      /\ UNCHANGED <<instances, exact, cycler, readers, listVars, bamVars>>

CalcTightBounds(n, s, transform, node_transform, num_children) ==
  LET c == calc_tight_bounds(instances[get_instances(cycler, n, s)], transform,
                             node_transform, num_children)
  IN  /\ call' = [NoNodeCall EXCEPT !.op = "calc_tight_bounds", !.node = n,
                      !.stage = s, !.ret = c.ret,
                      !.data = <<transform, node_transform, num_children>>,
                      !.calls = c.calls]
      /\ UNCHANGED <<instances, exact, cycler, readers, listVars, bamVars>>

MakeCopy(n) ==
  LET c == make_copy(instances, exact, cycler, n)
  IN  /\ Len(cycler) < MaxNodes
      /\ NodeState(c.heap, c.cycler, readers)
      /\ exact' = c.exact
      /\ call' = [NoNodeCall EXCEPT !.op = "make_copy", !.node = n,
                                    !.ret = Len(c.cycler)]
      /\ UNCHANGED <<listVars, bamVars>>

\* Two nodes written and combined.
NextNode ==
  \/ \E n \in Nodes, s \in Stages : SetInstancesNew(n, s)
  \/ \E n \in Nodes, s \in Stages, m \in Nodes : SetInstancesOf(n, s, m)
  \/ \E n \in Nodes, s \in Stages : ModifyAppend(n, s, TA, NodeMaxLen)
  \/ \E n \in Nodes, s \in Stages : ModifyClear(n, s)
  \/ Cycle
  \/ \E n \in Nodes, m \in Nodes, s \in Stages : CombineWith(n, m, s)

SpecNode == InitNode /\ [][NextNode]_vars

\* One node, constructed with a new, empty InstanceList in every stage.
InitCycler ==
  /\ instances = (1 :> <<>>)
  /\ empty_list = 0
  /\ mine = {}
  /\ last = NoCall
  /\ threads = <<>>
  /\ exact = <<TRUE>>
  /\ cycler = [n \in {1} |-> [s \in Stages |-> [instances |-> n]]]
  /\ readers = [k \in 1 .. MaxReaders |-> NoReader]
  /\ call = NoNodeCall
  /\ bam = NoBam

\* The stages of one node written while read pointers are held.
NextCycler ==
  \/ \E n \in Nodes, s \in Stages : SetInstancesNew(n, s)
  \/ \E n \in Nodes, s \in Stages, t \in TInputs : ModifyAppend(n, s, t, NodeMaxLen)
  \/ \E n \in Nodes, s \in Stages : ModifyClear(n, s)
  \/ \E n \in Nodes, s \in Stages, i \in 1 .. NodeMaxLen, t \in TInputs :
        ModifySet(n, s, i, t)
  \/ \E k \in DOMAIN readers, n \in Nodes, s \in Stages : GetInstances(k, n, s)
  \/ \E k \in DOMAIN readers : Release(k)
  \/ Cycle

SpecCycler == InitCycler /\ [][NextCycler]_vars

\* One node culled while its list is written.
NextCull ==
  \/ \E n \in Nodes, s \in Stages, t \in TInputs : ModifyAppend(n, s, t, MaxLen)
  \/ \E n \in Nodes, s \in Stages : ModifyClear(n, s)
  \/ Cycle
  \/ \E n \in Nodes, s \in Stages, data \in Datas : CullCallback(n, s, data)

SpecCull == InitCycler /\ [][NextCull]_vars

\* One node copied, and the node and its copies written and combined.
NextCopy ==
  \/ \E n \in Nodes : MakeCopy(n)
  \/ \E n \in Nodes, s \in Stages : SetInstancesNew(n, s)
  \/ \E n \in Nodes, s \in Stages : ModifyAppend(n, s, TA, NodeMaxLen)
  \/ \E n \in Nodes, s \in Stages : ModifyClear(n, s)
  \/ \E n \in Nodes, m \in Nodes, s \in Stages : n < m /\ CombineWith(n, m, s)

SpecCopy == InitCycler /\ [][NextCopy]_vars

\* The tight bounds of one node computed while its list is written.
NextBounds ==
  \/ \E n \in Nodes, s \in Stages, t \in TInputs : ModifyAppend(n, s, t, MaxLen)
  \/ \E n \in Nodes, s \in Stages : ModifyClear(n, s)
  \/ \E n \in Nodes, s \in Stages, transform \in {Identity, TB},
         node_transform \in {Identity, TA}, num_children \in 0 .. MaxChildren :
        CalcTightBounds(n, s, transform, node_transform, num_children)

SpecBounds == InitCycler /\ [][NextBounds]_vars

\* --------------------------------------------------------------- Bam files
\* A Datagram is a sequence of 16-bit words.
add_uint16(dg, value) == Append(dg, value % (2 ^ 16))

\* DatagramIterator::get_uint16 at position pos (words read so far): the
\* value, and whether the read ran past the end of the datagram.
get_uint16(dg, pos) ==
  IF pos < Len(dg) THEN [value |-> dg[pos + 1], overrun |-> FALSE]
  ELSE [value |-> 0, overrun |-> TRUE]

\* The BamWriter's table of object ids: ids[k] is the object with id k, and
\* the InstanceList being written has the first id.  0 is the id of nullptr.
\* A pair whose first component is 0 is no TransformState: <<0, 0>> stands for
\* nullptr and <<0, 1>> for the InstanceList object.
NullTransform == <<0, 0>>
ListObject == <<0, 1>>
object_id(ids, object) == CHOOSE k \in 1 .. Len(ids) : ids[k] = object

\* BamWriter::write_pointer: the object gets the next id unless it has one,
\* and its id is added to the datagram.
write_pointer(w, object) ==
  LET ids == IF \E k \in 1 .. Len(w.ids) : w.ids[k] = object
             THEN w.ids ELSE Append(w.ids, object)
  IN  [ids |-> ids, dg |-> add_uint16(w.dg, object_id(ids, object))]

\* The loop of InstanceList::write_datagram from instance i on.
RECURSIVE write_datagram_loop(_, _, _)
write_datagram_loop(list, w, i) ==
  IF i <= Len(list)
  THEN write_datagram_loop(list, write_pointer(w, list[i]), i + 1)
  ELSE w

\* InstanceList::write_datagram: the base class writes nothing, then one
\* pointer per instance.
write_datagram(list, w) == write_datagram_loop(list, w, 1)

\* BamReader::read_pointer: reads an object id and queues the request.
read_pointer(r) ==
  LET g == get_uint16(r.dg, r.pos)
  IN  [r EXCEPT !.pos = @ + 1, !.requests = Append(@, g.value),
                !.overrun = @ \/ g.overrun]

\* The loop of InstanceList::fillin: num_instances times read_pointer.
RECURSIVE fillin_loop(_, _, _)
fillin_loop(r, i, num_instances) ==
  IF i < num_instances THEN fillin_loop(read_pointer(r), i + 1, num_instances)
  ELSE r

\* InstanceList::fillin on the datagram dg: the base class reads nothing;
\* _instances is resized to the count read, each Instance default-constructed.
fillin(dg) ==
  LET g == get_uint16(dg, 0)
      num_instances == g.value
      r == fillin_loop([dg |-> dg, pos |-> 1, requests |-> <<>>,
                        overrun |-> g.overrun], 0, num_instances)
  IN  [list |-> [i \in 1 .. num_instances |-> Identity], pos |-> r.pos,
       requests |-> r.requests, overrun |-> r.overrun]

\* The objects the BamReader hands to complete_pointers, one for each id
\* requested, in the order of the requests; nullptr for the id 0.
p_list(ids, requests) ==
  [i \in 1 .. Len(requests) |->
     IF requests[i] \in 1 .. Len(ids) THEN ids[requests[i]] ELSE NullTransform]

\* DCAST(TransformState, object).  On an object of another type the cast
\* gives nullptr in a build that checks casts and the pointer itself in a
\* build that does not (ndebug).
is_TransformState(object) == object[1] > 0
DCAST_TransformState(object, ndebug) ==
  IF object = NullTransform \/ is_TransformState(object) \/ ndebug
  THEN object ELSE NullTransform

\* InstanceList::complete_pointers: the base class takes no pointer; the
\* i-th Instance is replaced by one made of the i-th pointer.  The list
\* after the call and the number of pointers processed.
complete_pointers_no_advance(list, plist, ndebug) ==
  [list |-> [i \in 1 .. Len(list) |-> DCAST_TransformState(plist[1], ndebug)],
   pi |-> 0]
complete_pointers(list, plist, ndebug) ==
  [list |-> [i \in 1 .. Len(list) |-> DCAST_TransformState(plist[i], ndebug)],
   pi |-> Len(list)]

\* ---------------------------------------------------------------- Bam calls
BamInputs == {TA, TB, TC}
BamLists == UNION {[1 .. n -> BamInputs] : n \in 0 .. MaxLen}

\* An InstanceList about to be written to a Bam file.
InitBam ==
  /\ instances \in {(1 :> list) : list \in BamLists}
  /\ empty_list = 0
  /\ mine = {1}
  /\ last = NoCall
  /\ threads = <<>>
  /\ exact = <<>>
  /\ cycler = <<>>
  /\ readers = <<>>
  /\ call = NoNodeCall
  /\ bam = NoBam

\* BamWriter::write_object on the list: it gets the first object id and
\* writes its datagram.
WriteDatagram(r) ==
  LET w == write_datagram(instances[r], [ids |-> <<ListObject>>, dg |-> <<>>])
  IN  /\ bam.phase = "idle"
      /\ bam' = [bam EXCEPT !.phase = "written", !.this = r, !.ids = w.ids,
                             !.dg = w.dg]
      /\ UNCHANGED <<instances, listVars, nodeVars>>

\* InstanceList::make_from_bam: a new InstanceList, filled in from the datagram.
MakeFromBam ==
  LET f == fillin(bam.dg)
  IN  /\ bam.phase = "written"
      /\ instances' = New(instances, f.list)
      /\ bam' = [bam EXCEPT !.phase = "filled", !.object = NewRef(instances),
                             !.pos = f.pos, !.requests = f.requests,
                             !.overrun = f.overrun]
      /\ UNCHANGED <<listVars, nodeVars>>

\* The BamReader resolves the pointers requested and completes the object.
CompletePointers(ndebug) ==
  LET c == complete_pointers(instances[bam.object], p_list(bam.ids, bam.requests),
                             ndebug)
  IN  /\ bam.phase = "filled"
      /\ instances' = [instances EXCEPT ![bam.object] = c.list]
      /\ bam' = [bam EXCEPT !.phase = "complete", !.pi = c.pi, !.ndebug = ndebug]
      /\ UNCHANGED <<listVars, nodeVars>>

NextBam ==
  \/ \E r \in Refs : WriteDatagram(r)
  \/ MakeFromBam
  \/ \E ndebug \in BOOLEAN : CompletePointers(ndebug)

SpecBam == InitBam /\ [][NextBam]_vars

\* A Bam file that holds an InstanceList (id 1) and two TransformStates, with
\* any datagram for the list: the ids in it may be those of any object.
FileIds == <<ListObject, TA, TB>>
Datagrams == UNION {[1 .. n -> 0 .. Len(FileIds)] : n \in 0 .. MaxLen + 1}

InitBamRead ==
  /\ instances = (1 :> <<>>)
  /\ empty_list = 0
  /\ mine = {1}
  /\ last = NoCall
  /\ threads = <<>>
  /\ exact = <<>>
  /\ cycler = <<>>
  /\ readers = <<>>
  /\ call = NoNodeCall
  /\ bam \in {[NoBam EXCEPT !.phase = "written", !.this = 1, !.ids = FileIds,
                             !.dg = dg] : dg \in Datagrams}

NextBamRead ==
  \/ MakeFromBam
  \/ \E ndebug \in BOOLEAN : CompletePointers(ndebug)

SpecBamRead == InitBamRead /\ [][NextBamRead]_vars

\* ---------------------------------------------------- Bam files: the node
\* A pointer to an object is a pair: <<-1, n>> is node n, <<0, r>> with r > 0
\* is the InstanceList r, and a TransformState is its value.
NodeObject(n) == <<-1, n>>
InstanceListObject(r) == <<0, r>>
is_InstanceList(object) == object[1] = 0 /\ object[2] # 0

\* InstancedNode::CData::write_datagram: one pointer, to the InstanceList.
CData_write_datagram_count(cdata, w) ==
  write_pointer([w EXCEPT !.dg = add_uint16(@, 1)], InstanceListObject(cdata.instances))
CData_write_datagram(cdata, w) ==
  write_pointer(w, InstanceListObject(cdata.instances))

\* InstancedNode::CData::fillin: one read_pointer.
CData_fillin(r) == read_pointer(r)

\* DCAST(InstanceList, object), as DCAST(TransformState, object) above.
DCAST_InstanceList(object, ndebug) ==
  IF object = NullTransform \/ is_InstanceList(object) \/ ndebug
  THEN object ELSE NullTransform

\* InstancedNode::CData::complete_pointers: CycleData takes no pointer; the
\* CData after the call and the number of pointers processed.
CData_complete_pointers(plist, ndebug) ==
  [cdata |-> [instances |-> DCAST_InstanceList(plist[1], ndebug)], pi |-> 1]

\* The objects the BamReader makes of the objects of a file: one new object
\* for every id of a node or a list, and the TransformState of that value.
read_objects(ids) ==
  [k \in 1 .. Len(ids) |-> IF ids[k][1] <= 0 THEN <<ids[k][1], k>> ELSE ids[k]]

\* bam in the specifications of the node: the BamWriter's table of ids, the
\* datagram written for the CData of each node, and for each node read the
\* requests made, the words read and, once completed, its CData.
NoBamNode == [ids |-> <<>>, dgs |-> <<>>, reads |-> <<>>, ndebug |-> FALSE]

\* Two nodes of the exact type, each with a list of its own in every stage.
InitBamNode ==
  /\ instances = (1 :> <<>>) @@ (2 :> <<>>)
  /\ empty_list = 0
  /\ mine = {}
  /\ last = NoCall
  /\ threads = <<>>
  /\ exact = <<TRUE, TRUE>>
  /\ cycler = [n \in {1, 2} |-> [s \in Stages |-> [instances |-> n]]]
  /\ readers = <<>>
  /\ call = NoNodeCall
  /\ bam = NoBamNode

\* BamWriter::write_object on node n, InstancedNode::write_datagram: the node
\* gets the next id, the PandaNode part is not modelled, and write_cdata
\* writes the CData of the current stage, stage 0.
WriteNode(n) ==
  LET ids == Append(bam.ids, NodeObject(n))
      w == CData_write_datagram(cycler[n][0], [ids |-> ids, dg |-> <<>>])
  IN  /\ bam.reads = <<>> /\ n = Len(bam.dgs) + 1
      /\ bam' = [bam EXCEPT !.ids = w.ids, !.dgs = Append(@, w.dg)]
      /\ UNCHANGED <<instances, listVars, nodeVars>>

\* InstancedNode::make_from_bam on the n-th datagram: a new node, whose
\* constructor gives it a new list, and InstancedNode::fillin, where
\* read_cdata calls CData::fillin.
ReadNode(n) ==
  LET r == CData_fillin([dg |-> bam.dgs[n], pos |-> 0, requests |-> <<>>,
                         overrun |-> FALSE])
  IN  /\ bam.dgs # <<>> /\ n = Len(bam.reads) + 1
      /\ bam' = [bam EXCEPT !.reads = Append(@,
                    [requests |-> r.requests, pos |-> r.pos, overrun |-> r.overrun,
                     complete |-> FALSE, pi |-> 0,
                     cdata |-> [instances |->
                                  InstanceListObject(Len(bam.ids) + n)]])]
      /\ UNCHANGED <<instances, listVars, nodeVars>>

\* The BamReader resolves the pointer requested for the n-th node read and
\* completes its CData.
CompleteNode(n, ndebug) ==
  LET c == CData_complete_pointers(
             p_list(read_objects(bam.ids), bam.reads[n].requests), ndebug)
  IN  /\ ~bam.reads[n].complete
      /\ \A m \in 1 .. n - 1 : bam.reads[m].complete /\ ndebug = bam.ndebug
      /\ bam' = [bam EXCEPT !.reads[n].complete = TRUE, !.reads[n].pi = c.pi,
                             !.reads[n].cdata = c.cdata, !.ndebug = ndebug]
      /\ UNCHANGED <<instances, listVars, nodeVars>>

\* Two nodes are given lists, shared or not, are written, and are read back.
NextBamNode ==
  \/ \E n \in Nodes, s \in Stages : bam.dgs = <<>> /\ SetInstancesNew(n, s)
  \/ \E n \in Nodes, s \in Stages, m \in Nodes :
        bam.dgs = <<>> /\ SetInstancesOf(n, s, m)
  \/ bam.dgs = <<>> /\ Cycle
  \/ \E n \in Nodes : WriteNode(n)
  \/ \E n \in Nodes : Len(bam.dgs) = Len(cycler) /\ ReadNode(n)
  \/ \E n \in Nodes, ndebug \in BOOLEAN :
        Len(bam.reads) = Len(cycler) /\ CompleteNode(n, ndebug)

SpecBamNode == InitBamNode /\ [][NextBamNode]_vars

\* A Bam file that holds two nodes (ids 1 and 2), an InstanceList and a
\* TransformState, with any datagram of at most two words for each CData.
NodeFileIds == <<NodeObject(1), NodeObject(2), InstanceListObject(1), TA>>
NodeDatagrams == UNION {[1 .. n -> 0 .. Len(NodeFileIds)] : n \in 0 .. 2}

InitBamNodeRead ==
  /\ instances = (1 :> <<>>)
  /\ empty_list = 0
  /\ mine = {}
  /\ last = NoCall
  /\ threads = <<>>
  /\ exact = <<>>
  /\ cycler = <<>>
  /\ readers = <<>>
  /\ call = NoNodeCall
  /\ bam \in {[NoBamNode EXCEPT !.ids = NodeFileIds, !.dgs = <<dg1, dg2>>] :
                dg1 \in NodeDatagrams, dg2 \in NodeDatagrams}

NextBamNodeRead ==
  \/ \E n \in 1 .. Len(bam.dgs) : ReadNode(n)
  \/ \E n \in 1 .. Len(bam.dgs), ndebug \in BOOLEAN :
        Len(bam.reads) = Len(bam.dgs) /\ CompleteNode(n, ndebug)

SpecBamNodeRead == InitBamNodeRead /\ [][NextBamNodeRead]_vars

\* ------------------------------------------------- claims on the Bam files
Uint16Max == 65535

\* C14 as stated: write_datagram emits at most 65535 pointers, and the count
\* at the head of the datagram, the word that fillin reads as the count, is
\* the number of pointers that follow it.
C14_AsStated ==
  bam.phase # "idle" /\ bam.dg # <<>> =>
    /\ Len(bam.dg) - 1 <= Uint16Max
    /\ get_uint16(bam.dg, 0).value = Len(bam.dg) - 1

\* C1 as stated: writing a list and reading it back gives a list of the same
\* size whose i-th transform is the original one, so that instances that
\* shared a transform still share it.
C1_AsStated ==
  bam.phase = "complete" => instances[bam.object] = instances[bam.this]

\* C2 as stated: the datagram written holds the 16-bit count size() and then
\* one pointer per instance in index order, which is what fillin consumes: it
\* reads the whole datagram and nothing past its end.
C2_AsStated ==
  /\ bam.phase # "idle" =>
       LET list == instances[bam.this]
       IN  /\ Len(bam.dg) = 1 + Len(list)
           /\ bam.dg[1] = Len(list)
           /\ \A i \in 1 .. Len(list) : bam.dg[1 + i] = object_id(bam.ids, list[i])
  /\ bam.phase \in {"filled", "complete"} =>
       bam.pos = Len(bam.dg) /\ ~bam.overrun

\* ------------------------------------------------------- claims on the list
\* The number of on bits of a mask, when finite.
popcount(mask) == Cardinality(mask.bits)
InRange(mask, n) == [bits |-> mask.bits \cap (0 .. n - 1), high |-> FALSE]

\* The instances of list whose index is not set in mask, in their order: the
\* k-th survivor is the instance at the k-th smallest index that is not set.
Survivors(list, mask) ==
  LET idx == {i \in 1 .. Len(list) : ~get_bit(mask, i - 1)}
  IN  [k \in 1 .. Cardinality(idx) |->
         list[CHOOSE i \in idx : Cardinality({j \in idx : j <= i}) = k]]

\* The contents of the list that without returns for a list and a mask.
WithoutContents(list, mask) ==
  LET w == without((1 :> list), 0, 1, mask) IN w.heap[w.ret]

WithoutSome ==
  /\ last.op = "without" /\ ~last.mask.high
  /\ 0 < popcount(last.mask) /\ popcount(last.mask) < Len(last.pre)

\* C3 as stated: with 0 < popcount(M) < size(L), without(M) has
\* size(L) - popcount(M) instances, those of L whose index is not set in M,
\* in their original order.
C3_AsStated ==
  WithoutSome =>
    /\ Len(instances[last.ret]) = Len(last.pre) - popcount(last.mask)
    /\ instances[last.ret] = Survivors(last.pre, last.mask)

\* C3 amended: with 0 < popcount(M) < size(L), without(M) holds exactly the
\* instances of L whose index is not set in M, in their original order, and
\* its size is size(L) minus the number of on bits of M below size(L).
C3_Without ==
  WithoutSome =>
    /\ Len(instances[last.ret]) =
         Len(last.pre) - popcount(InRange(last.mask, Len(last.pre)))
    /\ instances[last.ret] = Survivors(last.pre, last.mask)

\* A call that keeps an instance before the lowest on bit and skips a run of
\* on bits at the start of another.
C3_Witness ==
  /\ WithoutSome /\ Len(last.pre) = MaxLen
  /\ 0 \in last.mask.bits /\ 1 \notin last.mask.bits /\ 2 \in last.mask.bits
  /\ instances[last.ret] = <<last.pre[2]>>

\* C4 as stated: on every list and mask, without(M) has the contents of
\* without(M restricted to the indices below size(L)), and no assertion fails.
C4_AsStated ==
  last.op = "without" /\ ~last.mask.high =>
    /\ instances[last.ret] =
         WithoutContents(last.pre, InRange(last.mask, Len(last.pre)))
    /\ ~last.nassert

\* C5: a mask with no on bit makes without return the receiver itself.
C5_Without ==
  last.op = "without" /\ ~last.mask.high /\ popcount(last.mask) = 0 =>
    /\ last.ret = last.this
    /\ instances[last.ret] = last.pre

C5_Witness ==
  /\ last.op = "without" /\ last.mask = NoMask
  /\ last.ret = last.this /\ last.ret \in mine /\ Len(last.pre) = MaxLen

C5_WitnessEmpty ==
  /\ last.op = "without" /\ last.mask = NoMask
  /\ last.ret = last.this /\ last.pre = <<>>

AllCulled(l) ==
  /\ l.op = "without"
  /\ l.mask.high \/ (popcount(l.mask) > 0 /\ popcount(l.mask) >= Len(l.pre))

C7_AsStated ==
  last.op = "xform" =>
    instances[last.this] =
      [i \in 1 .. Len(last.pre) |-> compose(last.mat, last.pre[i])]

\* C18 as stated: the nassertr of without, num_culled <= num_instances, holds
\* on every call that reaches it.
C18_AsStated ==
  last.op = "without" => ~last.nassert

\* C19 as stated: when threads call without at the same time with masks
\* that exclude everything, all the calls return the same list, and one
\* empty list is made in all.
C19_AsStated ==
  /\ \A t, u \in DOMAIN threads :
       threads[t].ret # 0 /\ threads[u].ret # 0 => threads[t].ret = threads[u].ret
  /\ \A t, u \in DOMAIN threads :
       /\ threads[t].allocated <= 1
       /\ threads[t].allocated = 1 /\ threads[u].allocated = 1 => t = u

\* ------------------------------------------------------ claims on the node
\* C8: combine_with returns this node exactly when both nodes are of the
\* exact type InstancedNode and their lists in the current stage are the same
\* object, and nullptr otherwise, also when the two lists have equal contents.
C8_CombineWith ==
  call.op = "combine_with" =>
    /\ call.ret \in {call.node, 0}
    /\ call.ret = call.node <=>
         /\ exact[call.node] /\ exact[call.other]
         /\ get_instances(cycler, call.node, call.stage)
              = get_instances(cycler, call.other, call.stage)

\* Two nodes of the exact type whose lists are distinct objects with the same
\* instance in them, while in the other stage they share one list.
C8_Witness ==
  /\ call.op = "combine_with" /\ call.ret = 0 /\ call.node # call.other
  /\ exact[call.node] /\ exact[call.other]
  /\ get_instances(cycler, call.node, call.stage)
       # get_instances(cycler, call.other, call.stage)
  /\ instances[get_instances(cycler, call.node, call.stage)] = <<TA>>
  /\ instances[get_instances(cycler, call.other, call.stage)] = <<TA>>
  /\ \E s \in Stages :
       get_instances(cycler, call.node, s) = get_instances(cycler, call.other, s)

C8_WitnessShared ==
  /\ call.op = "combine_with" /\ call.ret = call.node /\ call.node # call.other
  /\ instances[get_instances(cycler, call.node, call.stage)] = <<TA>>

\* C9: cull_callback calls traverse_below once per instance, in list order,
\* the i-th time on a copy of the incoming data with the i-th transform
\* applied and culling disabled; it returns false.
C9_CullCallback ==
  call.op = "cull_callback" =>
    LET list == instances[get_instances(cycler, call.node, call.stage)]
        incoming == call.data[1]
    IN  /\ Len(call.calls) = Len(list)
        /\ \A i \in 1 .. Len(list) :
             call.calls[i] = [net |-> compose(incoming.net, list[i]),
                              view_frustum |-> FALSE, cull_planes |-> FALSE]
        /\ call.ret = FALSE

C9_Witness ==
  /\ call.op = "cull_callback" /\ Len(call.calls) = MaxLen
  /\ call.data[1] = [net |-> TB, view_frustum |-> TRUE, cull_planes |-> TRUE]
  /\ instances[get_instances(cycler, call.node, call.stage)] = <<TA, TB, TA>>

C9_WitnessEmpty ==
  /\ call.op = "cull_callback" /\ call.calls = <<>>
  /\ call.data[1].view_frustum
  /\ \E s \in Stages : instances[get_instances(cycler, call.node, s)] # <<>>

\* C10: a write to the list of stage A (a replacement, or an append, clear or
\* indexed write through a write pointer) leaves unchanged the contents of
\* every list held through a read pointer taken for another stage B.
C10_Stages ==
  [][\A k \in DOMAIN readers :
       /\ readers[k] # NoReader /\ readers'[k] # NoReader
       /\ call'.op = "write" /\ call'.stage # readers[k].stage
       => instances'[readers'[k].ref] = instances[readers[k].ref]]_vars

\* A reader holds the list of its stage while a write to another stage, which
\* shared that list, has left that stage with a changed clone.
C10_Witness ==
  /\ call.op = "write" /\ call.cloned /\ Len(instances) = NumStages
  /\ \E k \in DOMAIN readers :
       /\ readers[k] # NoReader
       /\ readers[k].stage # call.stage
       /\ get_instances(cycler, readers[k].node, readers[k].stage) = readers[k].ref
       /\ get_instances(cycler, call.node, call.stage) # readers[k].ref
       /\ instances[readers[k].ref] = <<TA>>
       /\ instances[get_instances(cycler, call.node, call.stage)] = <<TB>>

\* C11: a list held through a read pointer keeps its contents for as long as
\* it is held, whatever is written to any stage; a write through a write
\* pointer to a list that has another owner is made to a clone, which ends
\* with the contents of the shared list changed by that one write.
C11_ReadPointer ==
  [][/\ \A k \in DOMAIN readers :
          readers[k] # NoReader /\ readers'[k] # NoReader
          => instances'[readers'[k].ref] = instances[readers[k].ref]
     /\ /\ call'.op = "write" /\ call'.write # <<>>
        /\ ref_count(cycler, readers,
                     get_instances(cycler, call'.node, call'.stage)) > 1
        => /\ call'.cloned
           /\ instances'[get_instances(cycler', call'.node, call'.stage)]
                = written(instances[get_instances(cycler, call'.node, call'.stage)],
                          call'.write)
    ]_vars

\* A reader holds the list of the stage that was written: the indexed write
\* went to a clone, which the stage now has, and the reader still sees TA.
C11_Witness ==
  /\ call.op = "write" /\ call.cloned /\ call.write = <<"set", 1, TB>>
  /\ \E k \in DOMAIN readers :
       /\ readers[k] # NoReader
       /\ readers[k].node = call.node /\ readers[k].stage = call.stage
       /\ get_instances(cycler, call.node, call.stage) # readers[k].ref
       /\ instances[readers[k].ref] = <<TA>>
       /\ instances[get_instances(cycler, call.node, call.stage)] = <<TB>>

\* The objects resolved for the pointers that fillin requested.
Resolved == p_list(bam.ids, bam.requests)

\* C12: complete_pointers gives the i-th Instance the i-th pointer of
\* p_list (the base class takes none), cast to a TransformState, and returns
\* the size of the list, which is the number of read_pointer requests that
\* fillin made.
C12_CompletePointers ==
  bam.phase = "complete" =>
    LET list == instances[bam.object]
    IN  /\ Len(list) = Len(bam.requests)
        /\ \A i \in 1 .. Len(list) :
             list[i] = DCAST_TransformState(Resolved[i], bam.ndebug)
        /\ bam.pi = Len(list)

\* A list of MaxLen instances completed with MaxLen pointers, the first and
\* the last to distinct TransformStates.
C12_Witness ==
  /\ bam.phase = "complete" /\ bam.pi = MaxLen
  /\ bam.requests = [i \in 1 .. MaxLen |-> IF i = 1 THEN 3 ELSE 2]
  /\ instances[bam.object] = [i \in 1 .. MaxLen |-> IF i = 1 THEN TB ELSE TA]

\* C13 as stated (InstanceList): when a pointer resolves to an object that
\* is no TransformState, complete_pointers does not complete, and no instance
\* is ever given such an object, or nullptr in its place, for its transform.
C13_AsStated ==
  /\ bam.phase = "complete" =>
       \A i \in 1 .. Len(Resolved) :
         Resolved[i] = NullTransform \/ is_TransformState(Resolved[i])
  /\ bam.phase = "complete" =>
       \A i \in 1 .. Len(Resolved) :
         Resolved[i] # NullTransform => is_TransformState(instances[bam.object][i])

\* C15 as stated: no instance of any list has a null transform, and between
\* fillin and complete_pointers every instance of the list read has the
\* identity transform.
C15_AsStated ==
  /\ \A r \in Refs : \A i \in 1 .. size(r) : instances[r][i] # NullTransform
  /\ bam.phase = "filled" =>
       \A i \in 1 .. size(bam.object) : instances[bam.object][i] = Identity

\* C13 as stated (InstancedNode::CData): when the pointer resolves to an
\* object that is no InstanceList, complete_pointers does not complete, and
\* the node is never given such an object, or nullptr in its place, for its
\* list.
C13_AsStatedNode ==
  \A n \in 1 .. Len(bam.reads) :
    bam.reads[n].complete =>
      LET object == p_list(read_objects(bam.ids), bam.reads[n].requests)[1]
      IN  /\ object = NullTransform \/ is_InstanceList(object)
          /\ object # NullTransform => is_InstanceList(bam.reads[n].cdata.instances)

\* C17: the datagram written for a node's CData is one pointer, to the list
\* the node has in the current stage; fillin reads that one word and requests
\* one pointer; complete_pointers gives the node the object resolved for it,
\* an InstanceList, and returns 1; and two nodes that had the same list
\* when they were written have the same list after they are read.
C17_CData ==
  /\ \A n \in 1 .. Len(bam.dgs) :
       bam.dgs[n] = <<object_id(bam.ids,
                                InstanceListObject(get_instances(cycler, n, 0)))>>
  /\ \A n \in 1 .. Len(bam.reads) :
       /\ bam.reads[n].requests = bam.dgs[n]
       /\ bam.reads[n].pos = Len(bam.dgs[n]) /\ ~bam.reads[n].overrun
       /\ bam.reads[n].complete =>
            /\ bam.reads[n].pi = 1
            /\ bam.reads[n].cdata.instances
                 = p_list(read_objects(bam.ids), bam.reads[n].requests)[1]
            /\ is_InstanceList(bam.reads[n].cdata.instances)
  /\ \A n, m \in 1 .. Len(bam.reads) :
       /\ bam.reads[n].complete /\ bam.reads[m].complete
       /\ get_instances(cycler, n, 0) = get_instances(cycler, m, 0)
       => bam.reads[n].cdata.instances = bam.reads[m].cdata.instances

\* Two nodes that share their list in the current stage, and not in the
\* other, are written and read back: the two nodes read have one list.
C17_Witness ==
  /\ Len(bam.reads) = 2 /\ bam.reads[1].complete /\ bam.reads[2].complete
  /\ get_instances(cycler, 1, 0) = get_instances(cycler, 2, 0)
  /\ get_instances(cycler, 1, 1) # get_instances(cycler, 2, 1)
  /\ Len(bam.ids) = 3
  /\ bam.reads[1].cdata.instances = InstanceListObject(2)
  /\ bam.reads[2].cdata.instances = InstanceListObject(2)

\* Two nodes with a list each are written and read back: the nodes read have
\* a list each.
C17_WitnessApart ==
  /\ Len(bam.reads) = 2 /\ bam.reads[1].complete /\ bam.reads[2].complete
  /\ bam.reads[1].cdata.instances # bam.reads[2].cdata.instances

\* The calls that calc_tight_bounds is to make: for every instance in list
\* order, one to every child in turn, with the transform above composed with
\* the instance's.
BoundsCalls(list, num_children, above) ==
  [j \in 1 .. Len(list) * num_children |->
     <<(j - 1) % num_children,
       compose(above, list[((j - 1) \div num_children) + 1])>>]

\* C16 as stated: calc_tight_bounds visits every child once per instance,
\* with the node's transform composed with the instance's, and returns the
\* node's own transform.
C16_AsStated ==
  call.op = "calc_tight_bounds" =>
    LET list == instances[get_instances(cycler, call.node, call.stage)]
        node_transform == call.data[2]
    IN  /\ call.calls = BoundsCalls(list, call.data[3], node_transform)
        /\ call.ret = node_transform

\* C16 amended: calc_tight_bounds visits every child once per instance, with
\* the transform it was passed composed with the node's transform and then
\* with the instance's, and returns the transform it was passed composed with
\* the node's own, whatever the instance list.
C16_CalcTightBounds ==
  call.op = "calc_tight_bounds" =>
    LET list == instances[get_instances(cycler, call.node, call.stage)]
        next_transform == compose(call.data[1], call.data[2])
    IN  /\ call.calls = BoundsCalls(list, call.data[3], next_transform)
        /\ call.ret = next_transform

\* A node under the reflection TB, itself translated by TA, with MaxLen
\* instances and MaxChildren children.
C16_Witness ==
  /\ call.op = "calc_tight_bounds" /\ call.data = <<TB, TA, MaxChildren>>
  /\ instances[get_instances(cycler, call.node, call.stage)]
       = [i \in 1 .. MaxLen |-> IF i = 1 THEN TB ELSE TA]
  /\ Len(call.calls) = MaxLen * MaxChildren
  /\ call.calls[1] = <<0, compose(compose(TB, TA), TB)>>
  /\ call.ret = <<2, 2>>

\* C20: make_copy gives a node that has, in every stage, the list of the
\* original, and clones nothing, so that combine_with on the two returns the
\* original.  Two nodes that share a list in a stage go on sharing it, and
\* combine_with goes on returning the first, until the list of one of them in
\* that stage is replaced by a new list or written through a write pointer;
\* that write leaves the two with distinct lists, the list of the other node
\* with its contents, and combine_with returning nullptr.
C20_MakeCopy ==
  [][/\ call'.op = "make_copy" =>
          /\ Len(instances') = Len(instances)
          /\ \A s \in Stages :
               /\ get_instances(cycler', call'.ret, s)
                    = get_instances(cycler', call'.node, s)
               /\ combine_with(instances', exact', cycler', call'.node,
                               call'.ret, s) = call'.node
     /\ \A n, m \in Nodes, s \in Stages :
          n # m /\ get_instances(cycler, n, s) = get_instances(cycler, m, s) =>
            IF call'.op = "write" /\ call'.node \in {n, m} /\ call'.stage = s
            THEN LET other == IF call'.node = n THEN m ELSE n
                 IN  /\ get_instances(cycler', n, s) # get_instances(cycler', m, s)
                     /\ instances'[get_instances(cycler', other, s)]
                          = instances[get_instances(cycler, other, s)]
                     /\ combine_with(instances', exact', cycler', n, m, s) = 0
            ELSE /\ get_instances(cycler', n, s) = get_instances(cycler', m, s)
                 /\ combine_with(instances', exact', cycler', n, m, s) = n
    ]_vars

\* combine_with on a node and its copy returns nullptr: one of the two was
\* written in the stage of the call, where the original now has TA and the
\* copy has no instance, and in the other stage the two share a list.
C20_Witness ==
  /\ call.op = "combine_with" /\ call.ret = 0 /\ call.node = 1 /\ call.other = 2
  /\ instances[get_instances(cycler, 1, call.stage)] = <<TA>>
  /\ instances[get_instances(cycler, 2, call.stage)] = <<>>
  /\ \E s \in Stages : get_instances(cycler, 1, s) = get_instances(cycler, 2, s)

\* combine_with on a node and its copy returns the node: they share the list.
C20_WitnessShared ==
  /\ call.op = "combine_with" /\ call.ret = 1 /\ call.node = 1 /\ call.other = 2
  /\ instances[get_instances(cycler, 1, call.stage)] = <<TA>>
====
